---- MODULE Spec2Model ----
(***************************************************************************)
(* A model of music-metadata's core entry points (lib/core.ts):            *)
(* parseStream, parseBuffer, parseFromTokenizer, scanAppendingHeaders and  *)
(* the two utilities orderTags and ratingToStars.                          *)
(*                                                                         *)
(* JavaScript values: an optional number is the empty tuple (undefined) or *)
(* a one-element tuple holding the number.  Synchronous code runs to       *)
(* completion, so one action is one run-to-completion segment of a         *)
(* function: an async function is cut at each of its awaits.               *)
(***************************************************************************)
EXTENDS Integers, Sequences, FiniteSets, TLC

\* ------------------------------------------------------------------ bounds
NumOptions == 3        \* options objects owned by callers
MaxSizeSteps == 1      \* buffer sizes: 0 and ID3v1Len + k * SizeStep
SizeStep == 40         \* also the Lyrics3 and APEv2 tag length used
MaxDen == 16           \* ratings are the fractions num/den, den <= MaxDen
MaxTags == 3           \* longest native tag list

\* ------------------------------------------------- JavaScript value model
Undefined == << >>
Num(n) == << n >>
Val(x) == x[1]
\* ToBoolean of an optional number: undefined and 0 are falsy
Truthy(x) == x # Undefined /\ x # Num(0)

VARIABLES
  heap,          \* options objects: ref -> [fileSize, apeOffset]
  pc,            \* per call: where the invocation stands
  entry,         \* per call: the entry point that was called
  options,       \* per call: the options reference in scope (or Omitted)
  fileSize,      \* per call: randomReader.fileSize (the buffer's length)
  apeOffset,     \* per call: the local apeOffset of scanAppendingHeaders
  tokenizer,     \* per call: tokenizer.fileSize, or NoTokenizer
  log,           \* per call: the calls the invocation has issued, in order
  atCall,        \* per call: what the caller handed in (history)
  found,         \* per call: what its findApeFooterOffset returned (history)
  probed,        \* per call: what the first two probes returned (history)
  parsed,        \* per call: what ParserFactory.parseOnContentType received
  microtasks,    \* the calls whose continuation is ready to run, oldest first
  rating,        \* ratingToStars: the argument
  stars,         \* ratingToStars: the result
  nativeTags,    \* orderTags: the argument
  tagDict        \* orderTags: the result

parseVars == << heap, pc, entry, options, fileSize, apeOffset, tokenizer, log,
                atCall, found, probed, parsed, microtasks >>
starVars == << rating, stars >>
tagVars == << nativeTags, tagDict >>
vars == << parseVars, starVars, tagVars >>

\* --------------------------------------------------------- ratingToStars
\* Math.round: the nearest integer, a tie going up; num/den >= 0, den > 0
MathRound(num, den) == (2 * num + den) \div (2 * den)

\* (variant: the product truncated instead of rounded)
FloorRound(num, den) == num \div den

ratingToStarsTrunc(r) ==
  IF r = Undefined THEN 0 ELSE 1 + FloorRound(Val(r).num * 4, Val(r).den)

\* rating === undefined ? 0 : 1 + Math.round(rating * 4)
ratingToStars(r) ==
  IF r = Undefined THEN 0 ELSE 1 + MathRound(Val(r).num * 4, Val(r).den)

Ratings ==
  {Undefined} \cup
  { Num([num |-> n, den |-> d]) : n \in 0..MaxDen, d \in 1..MaxDen }


\* ------------------------------------------------------------- orderTags
\* A JavaScript value as orderTags meets it: undefined, an array, or one of
\* the function objects every plain object inherits from Object.prototype.
JsUndefined == [kind |-> "undefined", items |-> << >>]
JsFunction == [kind |-> "function", items |-> << >>]
JsArray(items) == [kind |-> "array", items |-> items]

\* members a plain object ({}) inherits from Object.prototype
ObjectPrototypeKeys ==
  {"constructor", "toString", "valueOf", "hasOwnProperty", "isPrototypeOf",
   "propertyIsEnumerable", "toLocaleString"}

\* tags[id]: an own property, else the inherited member, else undefined
GetProperty(tags, id) ==
  IF id \in DOMAIN tags THEN tags[id]
  ELSE IF id \in ObjectPrototypeKeys THEN JsFunction
  ELSE JsUndefined

\* tags[id] = v creates or replaces the own property
SetProperty(tags, id, v) ==
  [k \in DOMAIN tags \cup {id} |-> IF k = id THEN v ELSE tags[k]]

EmptyObject == [k \in {} |-> JsUndefined]

\* the loop of orderTags from the k-th tag on; a push on a value that is no
\* array is the TypeError "... .push is not a function"
RECURSIVE orderTagsFrom(_, _, _)
orderTagsFrom(list, k, tags) ==
  IF k > Len(list) THEN [status |-> "returned", tags |-> tags]
  ELSE LET tag == list[k]
           cur == GetProperty(tags, tag.id)
           v == IF cur.kind # "undefined" THEN cur ELSE JsArray(<< >>)
       IN IF v.kind = "array"
          THEN orderTagsFrom(list, k + 1,
                 SetProperty(tags, tag.id, JsArray(Append(v.items, tag.value))))
          ELSE [status |-> "TypeError", tags |-> SetProperty(tags, tag.id, v)]

orderTags(list) == orderTagsFrom(list, 1, EmptyObject)

TagIds == {"TIT2", "TPE1", "constructor"}
TagValues == {"a", "b"}
ITag == [id : TagIds, value : TagValues]
TagLists == UNION { [1..n -> ITag] : n \in 0..MaxTags }
Pending == [status |-> "pending", tags |-> EmptyObject]

\* ------------------------------------------------------------ parse state
ID3v1Len == 128

\* two invocations, which may overlap: the pair a claim about concurrent
\* parses speaks of
Calls == {1, 2}
CallerRefs == 1..NumOptions
\* the fresh object the default parameter `options = {}` creates for call i
DefaultRef(i) == NumOptions + i
Refs == CallerRefs \cup { DefaultRef(i) : i \in Calls }

FileSizes == {0} \cup { ID3v1Len + k * SizeStep : k \in 0..MaxSizeSteps }
TokenizerSizes == {Undefined, Num(0), Num(SizeStep)}
OptionArgs == {Undefined} \cup { Num(r) : r \in CallerRefs }

\* the options objects the callers hold: fileSize absent, 0 or positive,
\* apeOffset supplied (1, which no scan computes) or absent
IOptions(r) ==
  [fileSize |-> << Num(ID3v1Len), Undefined, Num(0) >>[(r % 3) + 1],
   apeOffset |-> << Undefined, Num(1) >>[(r % 2) + 1]]
EmptyOptions == [fileSize |-> Undefined, apeOffset |-> Undefined]

NoTokenizer == [created |-> FALSE, fileSize |-> Undefined]
Tokenizer(size) == [created |-> TRUE, fileSize |-> size]
NotParsed ==
  [started |-> FALSE, fileSize |-> Undefined, options |-> Undefined,
   apeOffset |-> Undefined]
NotProbed == [hasID3v1 |-> "unknown", lyricsLen |-> 0]
\* what the caller handed in: the options argument, options.apeOffset at the
\* call, and the size the tokenizer has before parseFromTokenizer looks at it
NotCalled == [options |-> Undefined, apeOffset |-> Undefined, tokenizer |-> Undefined]

\* options.apeOffset as read through a reference that may be undefined
ApeOffsetOf(h, opt) == IF opt = Undefined THEN Undefined ELSE h[Val(opt)].apeOffset
FileSizeOf(h, opt) == IF opt = Undefined THEN Undefined ELSE h[Val(opt)].fileSize

\* what the three probes can return for a reader of the given size
HasID3v1Outcomes(size) == IF size >= ID3v1Len THEN {TRUE, FALSE} ELSE {FALSE}
LyricsLenOutcomes(size) == {0} \cup IF size >= ID3v1Len + SizeStep THEN {SizeStep} ELSE {}
ApeFooterOutcomes(pos) == {Undefined} \cup IF pos >= SizeStep THEN {Num(pos - SizeStep)} ELSE {}

IdleParse(h) ==
  /\ heap = h
  /\ pc = [i \in Calls |-> "idle"]
  /\ entry = [i \in Calls |-> "none"]
  /\ options = [i \in Calls |-> Undefined]
  /\ fileSize = [i \in Calls |-> 0]
  /\ apeOffset = [i \in Calls |-> 0]
  /\ tokenizer = [i \in Calls |-> NoTokenizer]
  /\ log = [i \in Calls |-> << >>]
  /\ atCall = [i \in Calls |-> NotCalled]
  /\ found = [i \in Calls |-> Undefined]
  /\ probed = [i \in Calls |-> NotProbed]
  /\ parsed = [i \in Calls |-> NotParsed]
  /\ microtasks = << >>

Init ==
  /\ IdleParse([r \in Refs |-> IF r \in CallerRefs THEN IOptions(r) ELSE EmptyOptions])
  /\ rating = Undefined
  /\ stars = Undefined
  /\ nativeTags = << >>
  /\ tagDict = Pending

\* ----------------------------------------------------- parseFromTokenizer
\* (variant: the guard written as tokenizer.fileSize === undefined)
parseFromTokenizerStrict(tok, opt, h) ==
  IF tok = Undefined /\ opt = Undefined
    THEN [thrown |-> TRUE, fileSize |-> tok]
  ELSE IF tok = Undefined /\ FileSizeOf(h, opt) # Undefined
    THEN [thrown |-> FALSE, fileSize |-> FileSizeOf(h, opt)]
  ELSE [thrown |-> FALSE, fileSize |-> tok]

\* if (!tokenizer.fileSize && options.fileSize) tokenizer.fileSize = options.fileSize;
\* reading options.fileSize of an undefined options is a TypeError
parseFromTokenizer(tok, opt, h) ==
  IF ~Truthy(tok) /\ opt = Undefined
    THEN [thrown |-> TRUE, fileSize |-> tok]
  ELSE IF ~Truthy(tok) /\ Truthy(FileSizeOf(h, opt))
    THEN [thrown |-> FALSE, fileSize |-> FileSizeOf(h, opt)]
  ELSE [thrown |-> FALSE, fileSize |-> tok]

\* call i runs parseFromTokenizer(tokenizer, mimeType, opt) with lg logged so far;
\* onThrow is where a throw leaves the caller
Dispatch(i, tok, opt, lg, onThrow) ==
  LET r == parseFromTokenizer(tok, opt, heap) IN
    /\ tokenizer' = [tokenizer EXCEPT ![i] = Tokenizer(r.fileSize)]
    /\ pc' = [pc EXCEPT ![i] = IF r.thrown THEN onThrow ELSE "parseOnContentType"]
    /\ log' = [log EXCEPT ![i] =
                 IF r.thrown THEN lg ELSE Append(lg, << "parseOnContentType" >>)]
    /\ parsed' = [parsed EXCEPT ![i] =
                 IF r.thrown THEN NotParsed
                 ELSE [started |-> TRUE, fileSize |-> r.fileSize, options |-> opt,
                       apeOffset |-> ApeOffsetOf(heap, opt)]]

\* the entry point called directly with a tokenizer of the caller's
callParseFromTokenizer(i, tok, o) ==
  /\ pc[i] = "idle"
  /\ entry' = [entry EXCEPT ![i] = "parseFromTokenizer"]
  /\ options' = [options EXCEPT ![i] = o]
  /\ atCall' = [atCall EXCEPT ![i] =
       [options |-> o, apeOffset |-> ApeOffsetOf(heap, o), tokenizer |-> tok]]
  /\ Dispatch(i, tok, o, << >>, "thrown")
  /\ UNCHANGED << heap, fileSize, apeOffset, found, probed, microtasks, starVars,
                  tagVars >>

\* ------------------------------------------------------------ parseStream
\* (variant: parseStream starting the trailer scan as parseBuffer does)
parseStreamScanning(i, o) ==
  LET opt == IF o = Undefined THEN Num(DefaultRef(i)) ELSE o IN
    /\ pc[i] = "idle"
    /\ entry' = [entry EXCEPT ![i] = "parseStream"]
    /\ options' = [options EXCEPT ![i] = opt]
    /\ atCall' = [atCall EXCEPT ![i] =
         [options |-> o, apeOffset |-> ApeOffsetOf(heap, opt), tokenizer |-> Undefined]]
    /\ log' = [log EXCEPT ![i] = << << "hasID3v1Header" >> >>]
    /\ pc' = [pc EXCEPT ![i] = "hasID3v1Header"]
    /\ UNCHANGED << heap, fileSize, apeOffset, tokenizer, found, probed, parsed,
                    microtasks, starVars, tagVars >>

\* return parseFromTokenizer(strtok3.fromStream(stream), mimeType, options);
parseStream(i, o) ==
  LET opt == IF o = Undefined THEN Num(DefaultRef(i)) ELSE o IN
    /\ pc[i] = "idle"
    /\ entry' = [entry EXCEPT ![i] = "parseStream"]
    /\ options' = [options EXCEPT ![i] = opt]
    /\ atCall' = [atCall EXCEPT ![i] =
         [options |-> o, apeOffset |-> ApeOffsetOf(heap, opt), tokenizer |-> Undefined]]
    /\ Dispatch(i, Undefined, opt, << << "fromStream" >> >>, "thrown")
    /\ UNCHANGED << heap, fileSize, apeOffset, found, probed, microtasks, starVars,
                  tagVars >>

\* ------------------------------------------------------------ parseBuffer
\* An await suspends its function until the awaited promise settles; the
\* continuation is then queued as a microtask, and microtasks run one at a
\* time in the order they were queued.
Ready(i) == microtasks # << >> /\ Head(microtasks) = i
Queued(i) == \E k \in 1..Len(microtasks) : microtasks[k] = i

\* the promise of the probe call i awaits settles (hasID3v1Header,
\* getLyricsHeaderLength or findApeFooterOffset, with whatever outcome)
probeSettles(i) ==
  /\ pc[i] \in {"hasID3v1Header", "getLyricsHeaderLength", "findApeFooterOffset"}
  /\ ~Queued(i)
  /\ microtasks' = Append(microtasks, i)
  /\ UNCHANGED << heap, pc, entry, options, fileSize, apeOffset, tokenizer, log,
                  atCall, found, probed, parsed, starVars, tagVars >>

\* (variant: the await of scanAppendingHeaders dropped, so that the tokenizer
\* is created while the scan is still under way)
parseBufferNoAwait(i, size, o) ==
  LET opt == IF o = Undefined THEN Num(DefaultRef(i)) ELSE o IN
    /\ pc[i] = "idle"
    /\ entry' = [entry EXCEPT ![i] = "parseBuffer"]
    /\ options' = [options EXCEPT ![i] = opt]
    /\ atCall' = [atCall EXCEPT ![i] =
         [options |-> o, apeOffset |-> ApeOffsetOf(heap, opt), tokenizer |-> Num(size)]]
    /\ fileSize' = [fileSize EXCEPT ![i] = size]
    /\ apeOffset' = [apeOffset EXCEPT ![i] = size]
    /\ log' = [log EXCEPT ![i] = << << "hasID3v1Header" >>, << "fromBuffer" >> >>]
    /\ tokenizer' = [tokenizer EXCEPT ![i] = Tokenizer(Num(size))]
    /\ pc' = [pc EXCEPT ![i] = "hasID3v1Header"]
    /\ UNCHANGED << heap, found, probed, parsed, microtasks, starVars, tagVars >>

\* parseBuffer up to its await: new RandomBufferReader(buf), then
\* scanAppendingHeaders up to its first await: let apeOffset =
\* randomReader.fileSize and the call of hasID3v1Header
parseBuffer(i, size, o) ==
  LET opt == IF o = Undefined THEN Num(DefaultRef(i)) ELSE o IN
    /\ pc[i] = "idle"
    /\ entry' = [entry EXCEPT ![i] = "parseBuffer"]
    /\ options' = [options EXCEPT ![i] = opt]
    /\ atCall' = [atCall EXCEPT ![i] =
         [options |-> o, apeOffset |-> ApeOffsetOf(heap, opt), tokenizer |-> Num(size)]]
    /\ fileSize' = [fileSize EXCEPT ![i] = size]
    /\ apeOffset' = [apeOffset EXCEPT ![i] = size]
    /\ log' = [log EXCEPT ![i] = << << "hasID3v1Header" >> >>]
    /\ pc' = [pc EXCEPT ![i] = "hasID3v1Header"]
    /\ UNCHANGED << heap, tokenizer, found, probed, parsed, microtasks, starVars,
                    tagVars >>

\* (variant: the 128 bytes of the ID3v1 trailer not subtracted)
scanAfterHasID3v1HeaderNoSubtract(i, has) ==
  /\ pc[i] = "hasID3v1Header"
  /\ Ready(i)
  /\ microtasks' = Tail(microtasks)
  /\ IF has
       THEN /\ log' = [log EXCEPT ![i] = Append(@, << "getLyricsHeaderLength" >>)]
            /\ pc' = [pc EXCEPT ![i] = "getLyricsHeaderLength"]
       ELSE /\ log' = [log EXCEPT ![i] =
                         Append(@, << "findApeFooterOffset", apeOffset[i] >>)]
            /\ pc' = [pc EXCEPT ![i] = "findApeFooterOffset"]
  /\ probed' = [probed EXCEPT ![i].hasID3v1 = IF has THEN "yes" ELSE "no"]
  /\ UNCHANGED << heap, entry, options, fileSize, apeOffset, tokenizer, atCall, found,
                  parsed, starVars, tagVars >>

\* scanAppendingHeaders resumed with the result of hasID3v1Header
scanAfterHasID3v1Header(i, has) ==
  /\ pc[i] = "hasID3v1Header"
  /\ Ready(i)
  /\ microtasks' = Tail(microtasks)
  /\ IF has
       THEN /\ apeOffset' = [apeOffset EXCEPT ![i] = @ - ID3v1Len]
            /\ log' = [log EXCEPT ![i] = Append(@, << "getLyricsHeaderLength" >>)]
            /\ pc' = [pc EXCEPT ![i] = "getLyricsHeaderLength"]
       ELSE /\ apeOffset' = apeOffset
            /\ log' = [log EXCEPT ![i] =
                         Append(@, << "findApeFooterOffset", apeOffset[i] >>)]
            /\ pc' = [pc EXCEPT ![i] = "findApeFooterOffset"]
  /\ probed' = [probed EXCEPT ![i].hasID3v1 = IF has THEN "yes" ELSE "no"]
  /\ UNCHANGED << heap, entry, options, fileSize, tokenizer, atCall, found, parsed,
                  starVars, tagVars >>

\* scanAppendingHeaders resumed with the result of getLyricsHeaderLength
scanAfterGetLyricsHeaderLength(i, lyricsLen) ==
  /\ pc[i] = "getLyricsHeaderLength"
  /\ Ready(i)
  /\ microtasks' = Tail(microtasks)
  /\ apeOffset' = [apeOffset EXCEPT ![i] = @ - lyricsLen]
  /\ log' = [log EXCEPT ![i] =
               Append(@, << "findApeFooterOffset", apeOffset[i] - lyricsLen >>)]
  /\ pc' = [pc EXCEPT ![i] = "findApeFooterOffset"]
  /\ probed' = [probed EXCEPT ![i].lyricsLen = lyricsLen]
  /\ UNCHANGED << heap, entry, options, fileSize, tokenizer, atCall, found, parsed,
                  starVars, tagVars >>

\* (variant: a value the caller supplied is kept, options.apeOffset being
\* written only when it is still undefined)
scanKeepsCallerOffset(i, result) ==
  /\ pc[i] = "findApeFooterOffset"
  /\ Ready(i)
  /\ microtasks' = Append(Tail(microtasks), i)
  /\ heap' = [heap EXCEPT ![Val(options[i])].apeOffset =
                 IF @ = Undefined THEN result ELSE @]
  /\ found' = [found EXCEPT ![i] = result]
  /\ log' = [log EXCEPT ![i] = Append(@, << "options.apeOffset =", result >>)]
  /\ pc' = [pc EXCEPT ![i] = "scanAppendingHeaders"]
  /\ UNCHANGED << entry, options, fileSize, apeOffset, tokenizer, atCall, probed,
                  parsed, starVars, tagVars >>

\* scanAppendingHeaders resumed with the result of findApeFooterOffset:
\* options.apeOffset = <result>, and the function returns to its awaiter
scanAfterFindApeFooterOffset(i, result) ==
  /\ pc[i] = "findApeFooterOffset"
  /\ Ready(i)
  /\ microtasks' = Append(Tail(microtasks), i)
  /\ heap' = [heap EXCEPT ![Val(options[i])].apeOffset = result]
  /\ found' = [found EXCEPT ![i] = result]
  /\ log' = [log EXCEPT ![i] = Append(@, << "options.apeOffset =", result >>)]
  /\ pc' = [pc EXCEPT ![i] = "scanAppendingHeaders"]
  /\ UNCHANGED << entry, options, fileSize, apeOffset, tokenizer, atCall, probed,
                  parsed, starVars, tagVars >>

\* (variant: a failed scan clears options.apeOffset on its way out)
scanProbeRejectsClearing(i) ==
  /\ pc[i] \in {"hasID3v1Header", "getLyricsHeaderLength", "findApeFooterOffset"}
  /\ Ready(i)
  /\ microtasks' = Tail(microtasks)
  /\ pc' = [pc EXCEPT ![i] = "rejected"]
  /\ heap' = [heap EXCEPT ![Val(options[i])].apeOffset = Undefined]
  /\ UNCHANGED << entry, options, fileSize, apeOffset, tokenizer, log, atCall,
                  found, probed, parsed, starVars, tagVars >>

\* one of the awaited probes rejects: the rejection passes through
\* scanAppendingHeaders and parseBuffer, neither of which catches it
scanProbeRejects(i) ==
  /\ pc[i] \in {"hasID3v1Header", "getLyricsHeaderLength", "findApeFooterOffset"}
  /\ Ready(i)
  /\ microtasks' = Tail(microtasks)
  /\ pc' = [pc EXCEPT ![i] = "rejected"]
  /\ UNCHANGED << heap, entry, options, fileSize, apeOffset, tokenizer, log, atCall,
                  found, probed, parsed, starVars, tagVars >>

\* parseBuffer resumed after await scanAppendingHeaders:
\* strtok3.fromBuffer(buf), then parseFromTokenizer(tokenizer, mimeType, options)
parseBufferAfterScan(i) ==
  /\ pc[i] = "scanAppendingHeaders"
  /\ Ready(i)
  /\ microtasks' = Tail(microtasks)
  /\ Dispatch(i, Num(fileSize[i]), options[i], Append(log[i], << "fromBuffer" >>),
              "rejected")
  /\ UNCHANGED << heap, entry, options, fileSize, apeOffset, atCall, found, probed,
                  starVars, tagVars >>

Next ==
  \E i \in Calls :
    \/ \E o \in OptionArgs : parseStream(i, o)
    \/ \E size \in FileSizes, o \in OptionArgs : parseBuffer(i, size, o)
    \/ \E tok \in TokenizerSizes, o \in OptionArgs : callParseFromTokenizer(i, tok, o)
    \/ \E has \in HasID3v1Outcomes(fileSize[i]) : scanAfterHasID3v1Header(i, has)
    \/ \E len \in LyricsLenOutcomes(fileSize[i]) : scanAfterGetLyricsHeaderLength(i, len)
    \/ \E res \in ApeFooterOutcomes(apeOffset[i]) : scanAfterFindApeFooterOffset(i, res)
    \/ probeSettles(i)
    \/ scanProbeRejects(i)
    \/ parseBufferAfterScan(i)

Spec == Init /\ [][Next]_vars

\* ------------------------------------------------- the two pure utilities
InitStars ==
  /\ IdleParse([r \in Refs |-> EmptyOptions])
  /\ rating \in Ratings
  /\ stars = Undefined
  /\ nativeTags = << >>
  /\ tagDict = Pending

callRatingToStars ==
  /\ stars = Undefined
  /\ stars' = Num(ratingToStars(rating))
  /\ UNCHANGED << parseVars, rating, tagVars >>

SpecStars == InitStars /\ [][callRatingToStars]_vars

InitTags ==
  /\ IdleParse([r \in Refs |-> EmptyOptions])
  /\ rating = Undefined
  /\ stars = Undefined
  /\ nativeTags \in TagLists
  /\ tagDict = Pending

callOrderTags ==
  /\ tagDict = Pending
  /\ tagDict' = orderTags(nativeTags)
  /\ UNCHANGED << parseVars, starVars, nativeTags >>

SpecTags == InitTags /\ [][callOrderTags]_vars

\* ================================================================ claims
\* positions in call i's log of the calls named op
At(i, op) == { k \in 1..Len(log[i]) : log[i][k][1] = op }
Probes == {"hasID3v1Header", "getLyricsHeaderLength", "findApeFooterOffset"}
ScanSteps == Probes \cup {"options.apeOffset ="}
ScanAt(i) == UNION { At(i, op) : op \in ScanSteps }
ProbeAt(i) == UNION { At(i, op) : op \in Probes }
HasWritten(i) == At(i, "options.apeOffset =") # {}
\* the parseBuffer calls whose scan has written to the options object opt
Writers(opt) ==
  { j \in Calls : entry[j] = "parseBuffer" /\ options[j] = opt /\ HasWritten(j) }
\* no other parseBuffer call was handed the options object of call i
Unshared(i) ==
  \A j \in Calls \ {i} : entry[j] = "parseBuffer" => options[j] # options[i]

\* C1: ratingToStars of a defined rating r in [0,1] is 1 + round(4r), the
\* integer nearest to 4r (a tie going up), hence one of 1..5, with 1 for r = 0
\* and 5 for r = 1; ratingToStars of undefined is 0, and of no r in [0,1].
C1_RatingToStars ==
  stars # Undefined =>
    IF rating = Undefined THEN Val(stars) = 0
    ELSE LET n == Val(rating).num
             d == Val(rating).den
             st == Val(stars)
         IN n <= d =>
              /\ st \in 1..5
              /\ 2 * (st - 1) * d <= 8 * n + d
              /\ 8 * n + d < 2 * st * d
              /\ (n = 0 => st = 1)
              /\ (n = d => st = 5)

\* a rating of 1/8 (4r ends in .5) has been converted, to 2 stars
C1_Witness ==
  /\ stars = Num(2)
  /\ rating # Undefined
  /\ 8 * Val(rating).num = Val(rating).den

\* the values of the tags of `list` with identifier id, in arrival order
ValuesOf(list, id) ==
  LET sel == SelectSeq(list, LAMBDA t : t.id = id)
  IN [k \in 1..Len(sel) |-> sel[k].value]

\* C2: orderTags returns, for every list of native tags, a dictionary with
\* exactly one key per distinct tag id, holding under each key the values of
\* the tags with that id in arrival order, duplicates included.
C2_OrderTags ==
  tagDict.status # "pending" =>
    /\ tagDict.status = "returned"
    /\ DOMAIN tagDict.tags = { nativeTags[k].id : k \in 1..Len(nativeTags) }
    /\ \A id \in DOMAIN tagDict.tags :
         tagDict.tags[id] = JsArray(ValuesOf(nativeTags, id))

\* C3: in parseBuffer every step of the trailer scan (the probes and the write
\* of options.apeOffset) comes before the tokenizer is created and before the
\* primary parse starts, and both happen only once the scan has written.
C3_ScanBeforeParse ==
  \A i \in Calls : entry[i] = "parseBuffer" =>
    /\ \A s \in ScanAt(i), t \in At(i, "fromBuffer") \cup At(i, "parseOnContentType") :
         s < t
    /\ \A t \in At(i, "fromBuffer"), u \in At(i, "parseOnContentType") : t < u
    /\ (tokenizer[i].created \/ parsed[i].started \/ At(i, "fromBuffer") # {}) =>
         /\ HasWritten(i)
         /\ pc[i] \notin Probes

\* a parseBuffer call that ran all three probes has handed off to the parser
C3_Witness ==
  \E i \in Calls :
    /\ entry[i] = "parseBuffer"
    /\ parsed[i].started
    /\ At(i, "getLyricsHeaderLength") # {}
    /\ At(i, "fromBuffer") # {}

\* C4 as stated: when the caller passes options.apeOffset to parseBuffer and
\* the scan computes an offset too, the primary parse sees the caller's value.
C4_CallerValueWins ==
  \A i \in Calls :
    ( /\ entry[i] = "parseBuffer"
      /\ parsed[i].started
      /\ Unshared(i)
      /\ atCall[i].apeOffset # Undefined
      /\ found[i] # Undefined )
    => parsed[i].apeOffset = atCall[i].apeOffset

\* C4 amended: the scan's value wins. The options.apeOffset the primary parse
\* of a parseBuffer call sees is a value written by a trailer scan on that
\* options object, the call's own scan when no other parseBuffer call shares
\* the object, whatever the caller supplied.
C4_ScanValueWins ==
  \A i \in Calls : (entry[i] = "parseBuffer" /\ parsed[i].started) =>
    /\ parsed[i].apeOffset \in { found[j] : j \in Writers(options[i]) }
    /\ Unshared(i) => parsed[i].apeOffset = found[i]

\* the caller supplied an offset, the scan computed another, the parser was
\* handed the scan's
C4_Witness ==
  \E i \in Calls :
    /\ entry[i] = "parseBuffer"
    /\ parsed[i].started
    /\ Unshared(i)
    /\ atCall[i].apeOffset = Num(1)
    /\ found[i] # Undefined
    /\ parsed[i].apeOffset = found[i]

\* C5: whatever the interleaving of two parseBuffer calls, the options.apeOffset
\* each primary parse is handed is the one computed from its own buffer, also
\* when both callers pass the same options object.
C5_OwnOffset ==
  \A i \in Calls : (entry[i] = "parseBuffer" /\ parsed[i].started) =>
    parsed[i].apeOffset = found[i]

\* C6: parseStream runs no step of the trailer scan: it issues no probe, it
\* reaches the primary parse within the call, and options.apeOffset is at the
\* hand-off what it was at the call.
C6_ParseStreamNoScan ==
  \A i \in Calls : entry[i] = "parseStream" =>
    /\ ScanAt(i) = {}
    /\ log[i] = << << "fromStream" >>, << "parseOnContentType" >> >>
    /\ pc[i] = "parseOnContentType"
    /\ parsed[i].started
    /\ parsed[i].apeOffset = atCall[i].apeOffset
    /\ found[i] = Undefined

\* parseStream was called with an options object that carries an apeOffset
C6_Witness ==
  \E i \in Calls :
    /\ entry[i] = "parseStream"
    /\ atCall[i].apeOffset = Num(1)
    /\ parsed[i].started

\* C7 as stated: a tokenizer without a size gets options.fileSize when that
\* is given; a tokenizer with a size keeps it; without options.fileSize the
\* tokenizer's size is unchanged.
C7_FileSizeOverride ==
  \A i \in Calls : parsed[i].started =>
    LET before == atCall[i].tokenizer
        given == FileSizeOf(heap, options[i])
        after == parsed[i].fileSize
    IN /\ (before = Undefined /\ given # Undefined) => after = given
       /\ before # Undefined => after = before
       /\ given = Undefined => after = before

\* C7 amended: a tokenizer whose size is absent or 0 gets options.fileSize
\* when that is given and not 0; in every other case the tokenizer's size is
\* unchanged.
C7_FileSizeOverrideFalsy ==
  \A i \in Calls : parsed[i].started =>
    LET before == atCall[i].tokenizer
        given == FileSizeOf(heap, options[i])
        after == parsed[i].fileSize
    IN /\ ((before = Undefined \/ before = Num(0))
             /\ given # Undefined /\ given # Num(0)) => after = given
       /\ (before # Undefined /\ before # Num(0)) => after = before
       /\ (given = Undefined \/ given = Num(0)) => after = before
       /\ tokenizer[i] = Tokenizer(after)

\* a tokenizer of size 0 was given the size the options carry
C7_Witness ==
  \E i \in Calls :
    /\ parsed[i].started
    /\ atCall[i].tokenizer = Num(0)
    /\ FileSizeOf(heap, options[i]) = Num(ID3v1Len)
    /\ parsed[i].fileSize = Num(ID3v1Len)

\* the position the scan of call i has to hand to findApeFooterOffset
ExpectedApePosition(i) ==
  IF probed[i].hasID3v1 = "yes"
    THEN fileSize[i] - ID3v1Len - probed[i].lyricsLen
    ELSE fileSize[i]

\* C8: the scan probes for ID3v1 first; for Lyrics3 only when ID3v1 was
\* detected, and next; for the APEv2 footer last and once, at fileSize when no
\* ID3v1 was detected and at fileSize - 128 - lyricsLen otherwise; and it sets
\* options.apeOffset to what that probe returned.
C8_ProbePositions ==
  \A i \in Calls : entry[i] = "parseBuffer" =>
    /\ log[i][1] = << "hasID3v1Header" >>
    /\ At(i, "hasID3v1Header") = {1}
    /\ At(i, "getLyricsHeaderLength") =
         IF probed[i].hasID3v1 = "yes" THEN {2} ELSE {}
    /\ Cardinality(At(i, "findApeFooterOffset")) <= 1
    /\ \A k \in At(i, "findApeFooterOffset") :
         /\ log[i][k] = << "findApeFooterOffset", ExpectedApePosition(i) >>
         /\ \A q \in ProbeAt(i) : q <= k
    /\ HasWritten(i) =>
         /\ Cardinality(At(i, "findApeFooterOffset")) = 1
         /\ \A w \in At(i, "options.apeOffset =") :
              /\ log[i][w] = << "options.apeOffset =", found[i] >>
              /\ \A q \in ProbeAt(i) : q < w
    /\ pc[i] = "scanAppendingHeaders" =>
         /\ heap[Val(options[i])].apeOffset \in { found[j] : j \in Writers(options[i]) }
         /\ Unshared(i) => heap[Val(options[i])].apeOffset = found[i]

\* a scan that found ID3v1 and a Lyrics3 block has probed for the APEv2 footer
\* before both and written the result
C8_Witness ==
  \E i \in Calls :
    /\ entry[i] = "parseBuffer"
    /\ pc[i] = "scanAppendingHeaders"
    /\ probed[i].hasID3v1 = "yes"
    /\ probed[i].lyricsLen = SizeStep
    /\ log[i][3] = << "findApeFooterOffset", fileSize[i] - ID3v1Len - SizeStep >>

\* C9: parseFromTokenizer called without options reaches the primary parse,
\* whatever the tokenizer, and raises nothing in the entry point.
C9_OptionsOptional ==
  \A i \in Calls :
    (entry[i] = "parseFromTokenizer" /\ atCall[i].options = Undefined) =>
      /\ pc[i] = "parseOnContentType"
      /\ parsed[i].started

\* C10: when a probe of the trailer scan fails, parseBuffer is rejected with
\* no tokenizer created and no primary parse started, and options.apeOffset
\* is what it was before the call.
C10_ScanFailureAborts ==
  \A i \in Calls : (entry[i] = "parseBuffer" /\ pc[i] = "rejected") =>
    /\ ~tokenizer[i].created
    /\ ~parsed[i].started
    /\ At(i, "fromBuffer") \cup At(i, "parseOnContentType") = {}
    /\ ~HasWritten(i)
    /\ Unshared(i) => heap[Val(options[i])].apeOffset = atCall[i].apeOffset

\* a scan failed at its last probe, after ID3v1 and Lyrics3 were found, on an
\* options object that carries the caller's apeOffset
C10_Witness ==
  \E i \in Calls :
    /\ entry[i] = "parseBuffer"
    /\ pc[i] = "rejected"
    /\ Unshared(i)
    /\ atCall[i].apeOffset = Num(1)
    /\ At(i, "getLyricsHeaderLength") # {}
    /\ At(i, "findApeFooterOffset") # {}

====
